---- MODULE Spec2Model ----
(***************************************************************************)
(* A model of the wgpu_learning demo: the frame controller (State and the  *)
(* winit event-loop closure of lib.rs), the camera and its controller      *)
(* (camera.rs) and the local/world transform (model_matrix.rs).            *)
(*                                                                         *)
(* Arithmetic is exact: an f32 is modelled by the rational number it       *)
(* approximates, so floating-point rounding is outside the model.  A       *)
(* rational is a pair <<n, d>> in lowest terms with d > 0.  Vectors,       *)
(* points and matrices keep cgmath's layout: a Matrix4 is a tuple of four  *)
(* columns x, y, z, w, each a tuple of four rows.                          *)
(***************************************************************************)
EXTENDS Integers, Sequences, FiniteSets, TLC

----------------------------------------------------------------------------
(* Bounds of the model. *)

\* frames (RedrawRequested events) dispatched in one run
MaxTicks == 2

\* operations applied to one ModelMatrix in one run
MaxOps == 2

\* update_camera calls on the camera driven by the controller alone
MaxCamTicks == 2

----------------------------------------------------------------------------
(* Exact rational arithmetic standing for f32. *)

Abs(n) == IF n < 0 THEN -n ELSE n

RECURSIVE Gcd(_, _)
Gcd(a, b) == IF b = 0 THEN a ELSE Gcd(b, a % b)

Rat(n, d) ==
    LET g == Gcd(Abs(n), Abs(d))
        s == IF d < 0 THEN -1 ELSE 1
    IN  <<(s * n) \div g, (s * d) \div g>>

R(n) == <<n, 1>>

\* (a sum with 0 and a product with 0 or 1 need no reduction; common factors
\* are divided out before multiplying, which keeps the integers small)
RAdd(a, b) ==
    IF a[1] = 0 THEN b
    ELSE IF b[1] = 0 THEN a
    ELSE LET g == Gcd(a[2], b[2])
         IN  Rat(a[1] * (b[2] \div g) + b[1] * (a[2] \div g), (a[2] \div g) * b[2])
RNeg(a) == <<-a[1], a[2]>>
RSub(a, b) == RAdd(a, RNeg(b))
RMul(a, b) ==
    IF a[1] = 0 \/ b[1] = 0 THEN <<0, 1>>
    ELSE IF a = <<1, 1>> THEN b
    ELSE IF b = <<1, 1>> THEN a
    ELSE LET g == Gcd(Abs(a[1]), b[2])
             h == Gcd(Abs(b[1]), a[2])
         IN  Rat((a[1] \div g) * (b[1] \div h), (a[2] \div h) * (b[2] \div g))
RDiv(a, b) == Rat(a[1] * b[2], a[2] * b[1])
RIsZero(a) == a[1] = 0

\* the exact square root of a perfect square
ISqrt(n) == CHOOSE k \in 0..n : k * k = n
RSqrt(a) == <<ISqrt(a[1]), ISqrt(a[2])>>

----------------------------------------------------------------------------
(* cgmath Vector3 / Point3: <<x, y, z>>. *)

V3(x, y, z) == <<R(x), R(y), R(z)>>
VAdd(a, b) == <<RAdd(a[1], b[1]), RAdd(a[2], b[2]), RAdd(a[3], b[3])>>
VSub(a, b) == <<RSub(a[1], b[1]), RSub(a[2], b[2]), RSub(a[3], b[3])>>
VScale(a, k) == <<RMul(a[1], k), RMul(a[2], k), RMul(a[3], k)>>
VDot(a, b) == RAdd(RAdd(RMul(a[1], b[1]), RMul(a[2], b[2])), RMul(a[3], b[3]))
VCross(a, b) ==
    << RSub(RMul(a[2], b[3]), RMul(a[3], b[2])),
       RSub(RMul(a[3], b[1]), RMul(a[1], b[3])),
       RSub(RMul(a[1], b[2]), RMul(a[2], b[1])) >>
VNormalize(a) == VScale(a, RDiv(R(1), RSqrt(VDot(a, a))))

----------------------------------------------------------------------------
(* cgmath Matrix4, column-major: m[c][r] is column c, row r. *)

\* Matrix4::new takes its sixteen arguments column by column
Mat4(a0, a1, a2, a3, b0, b1, b2, b3, c0, c1, c2, c3, d0, d1, d2, d3) ==
    << <<a0, a1, a2, a3>>, <<b0, b1, b2, b3>>,
       <<c0, c1, c2, c3>>, <<d0, d1, d2, d3>> >>

Identity4 ==
    Mat4(R(1), R(0), R(0), R(0),  R(0), R(1), R(0), R(0),
         R(0), R(0), R(1), R(0),  R(0), R(0), R(0), R(1))

\* Matrix4 * Matrix4: (a * b)[c][r] = sum over k of a[k][r] * b[c][k]
Entry4(a, b, c, r) ==
    RAdd(RAdd(RMul(a[1][r], b[c][1]), RMul(a[2][r], b[c][2])),
         RAdd(RMul(a[3][r], b[c][3]), RMul(a[4][r], b[c][4])))

Column4(a, b, c) ==
    <<Entry4(a, b, c, 1), Entry4(a, b, c, 2), Entry4(a, b, c, 3), Entry4(a, b, c, 4)>>

Mul4(a, b) == <<Column4(a, b, 1), Column4(a, b, 2), Column4(a, b, 3), Column4(a, b, 4)>>

\* cgmath Matrix3, column-major, and its determinant, transpose and inverse
Det3(m) ==
    RAdd(RSub(RMul(m[1][1], RSub(RMul(m[2][2], m[3][3]), RMul(m[3][2], m[2][3]))),
              RMul(m[2][1], RSub(RMul(m[1][2], m[3][3]), RMul(m[3][2], m[1][3])))),
         RMul(m[3][1], RSub(RMul(m[1][2], m[2][3]), RMul(m[2][2], m[1][3]))))

Transpose3(m) ==
    << <<m[1][1], m[2][1], m[3][1]>>,
       <<m[1][2], m[2][2], m[3][2]>>,
       <<m[1][3], m[2][3], m[3][3]>> >>

VDiv(a, k) == <<RDiv(a[1], k), RDiv(a[2], k), RDiv(a[3], k)>>

\* Matrix3::invert: None ("None") when the determinant is zero
InvertWithDet(m, det) ==
    IF RIsZero(det)
    THEN <<"None">>
    ELSE <<"Some", Transpose3(<< VDiv(VCross(m[2], m[3]), det),
                                 VDiv(VCross(m[3], m[1]), det),
                                 VDiv(VCross(m[1], m[2]), det) >>)>>

Invert3(m) == InvertWithDet(m, Det3(m))

Identity3 ==
    << <<R(1), R(0), R(0)>>, <<R(0), R(1), R(0)>>, <<R(0), R(0), R(1)>> >>

\* Matrix4::from(Quaternion), the quaternion being [s, v]
Matrix4FromQuat(quat) ==
    LET x2 == RAdd(quat.v[1], quat.v[1])
        y2 == RAdd(quat.v[2], quat.v[2])
        z2 == RAdd(quat.v[3], quat.v[3])
        xx2 == RMul(x2, quat.v[1])
        xy2 == RMul(x2, quat.v[2])
        xz2 == RMul(x2, quat.v[3])
        yy2 == RMul(y2, quat.v[2])
        yz2 == RMul(y2, quat.v[3])
        zz2 == RMul(z2, quat.v[3])
        sy2 == RMul(y2, quat.s)
        sz2 == RMul(z2, quat.s)
        sx2 == RMul(x2, quat.s)
    IN  Mat4(RSub(RSub(R(1), yy2), zz2), RAdd(xy2, sz2), RSub(xz2, sy2), R(0),
             RSub(xy2, sz2), RSub(RSub(R(1), xx2), zz2), RAdd(yz2, sx2), R(0),
             RAdd(xz2, sy2), RSub(yz2, sx2), RSub(RSub(R(1), xx2), yy2), R(0),
             R(0), R(0), R(0), R(1))

----------------------------------------------------------------------------
(* constants.rs *)

OPENGL_TO_WGPU_MATRIX ==
    Mat4(R(1), R(0), R(0), R(0),
         R(0), R(1), R(0), R(0),
         R(0), R(0), Rat(1, 2), R(0),
         R(0), R(0), Rat(1, 2), R(1))

WIDTH == 1280
HEIGHT == 720
FOV == 90
NEAR_CLIP == Rat(1, 10)
FAR_CLIP == R(100)
CAM_SPEED == Rat(5, 100)
CAM_ROT_SPEED == Rat(1, 10)

----------------------------------------------------------------------------
(* Angles.  The two rotations of State::update are about the world Y axis  *)
(* by Deg(1.0) and Deg(0.2); angles are counted in tenths of a degree, so  *)
(* that composing rotations about that axis is exact.                      *)

FullTurn == 360 * 10

\* cgmath::Deg(1.0), lib.rs:141, in tenths of a degree
LIGHT_DEG == 10
\* cgmath::Deg(0.2), lib.rs:150, in tenths of a degree
OBJ_DEG == 2

\* Quaternion::from_axis_angle(Vector3::unit_y(), Deg(a))
from_axis_angle_y(a) == [axis |-> "unit_y", angle |-> a % FullTurn]

\* Quaternion * Vector3 for a rotation about unit_y.  The vector is held in
\* cylindrical coordinates about the Y axis (radius, azimuth, height), in
\* which that rotation adds its angle to the azimuth.
QuatMulVec(q, v) == [v EXCEPT !.azimuth = (@ + q.angle) % FullTurn]

\* Matrix4::from(Quaternion) for a rotation about unit_y, and the product of
\* two such matrices: a rotation about Y is held as its angle, and the
\* product of two of them is the rotation by the sum.
Matrix4FromQuatY(q) == [rot_y |-> q.angle]
MulRotY(a, b) == [rot_y |-> (a.rot_y + b.rot_y) % FullTurn]

----------------------------------------------------------------------------
(* camera.rs: Camera *)

\* cot(fovy / 2) of cgmath::perspective; exact for the one field of view used
CotHalf(fovy) == CASE fovy = 90 -> R(1)

\* cgmath::Matrix4::look_to_rh(eye, dir, up), from f = dir.normalize(),
\* s = f.cross(up).normalize() and u = s.cross(f)
LookToMatrix(eye, f, s, u) ==
    Mat4(s[1], u[1], RNeg(f[1]), R(0),
         s[2], u[2], RNeg(f[2]), R(0),
         s[3], u[3], RNeg(f[3]), R(0),
         RNeg(VDot(eye, s)), RNeg(VDot(eye, u)), VDot(eye, f), R(1))

LookToSide(eye, f, s) == LookToMatrix(eye, f, s, VCross(s, f))

LookToForward(eye, f, up) == LookToSide(eye, f, VNormalize(VCross(f, up)))

look_to_rh(eye, dir, up) == LookToForward(eye, VNormalize(dir), up)

\* cgmath::Matrix4::look_at_rh(eye, center, up)
look_at_rh(eye, center, up) == look_to_rh(eye, VSub(center, eye), up)

\* cgmath::perspective(fovy, aspect, near, far), from f = cot(fovy / 2)
PerspectiveMatrix(f, aspect, near, far) ==
    Mat4(RDiv(f, aspect), R(0), R(0), R(0),
         R(0), f, R(0), R(0),
         R(0), R(0), RDiv(RAdd(far, near), RSub(near, far)), R(-1),
         R(0), R(0), RDiv(RMul(R(2), RMul(far, near)), RSub(near, far)), R(0))

perspective(fovy, aspect, near, far) ==
    PerspectiveMatrix(CotHalf(fovy), aspect, near, far)

\* OPENGL_TO_WGPU_MATRIX * projection * view
ViewProjection(position, target, up, aspect) ==
    Mul4(Mul4(OPENGL_TO_WGPU_MATRIX, perspective(FOV, aspect, NEAR_CLIP, FAR_CLIP)),
         look_at_rh(position, target, up))

build_view_projection_matrix(cam) ==
    ViewProjection(cam.position, cam.target, cam.up, cam.aspect)

\* the new buffer of Camera::update_view_proj, and its new bind group on that
\* buffer.  The bind group always refers to camera.buffer, so the buffer
\* field stands for both.
CameraWithViewProj(cam, view_proj) ==
    [cam EXCEPT !.uniform = view_proj, !.buffer = view_proj]

\* Camera::update_view_proj
update_view_proj(cam) == CameraWithViewProj(cam, build_view_projection_matrix(cam))

\* Camera::new
CameraCreate(position, target, up, matrix) ==
    [position |-> position, target |-> target, up |-> up,
     aspect |-> Rat(WIDTH, HEIGHT), uniform |-> matrix, buffer |-> matrix]

CameraNew ==
    CameraCreate(V3(0, 0, 2), V3(0, 0, -1), V3(0, 1, 0),
                 ViewProjection(V3(0, 0, 2), V3(0, 0, -1), V3(0, 1, 0),
                                Rat(WIDTH, HEIGHT)))

----------------------------------------------------------------------------
(* camera.rs: CameraController *)

CameraControllerNew ==
    [speed |-> CAM_SPEED, rot_speed |-> CAM_ROT_SPEED,
     left_press |-> FALSE, right_press |-> FALSE,
     up_press |-> FALSE, down_press |-> FALSE,
     rotate_left |-> FALSE, rotate_right |-> FALSE]

\* A WindowEvent is [kind, key, state, size]; a field an event kind does not
\* carry holds "-" (or <<0, 0>> for size).  key "None" is
\* virtual_keycode: None.
UpKeys == {"W", "Up"}
LeftKeys == {"A", "Left"}
DownKeys == {"S", "Down"}
RightKeys == {"D", "Right"}

\* variant of CameraController::process_events whose D | Right arm writes
\* left_press
process_events_right_writes_left(ctl, ev) ==
    IF ev.kind = "KeyboardInput" /\ ev.key # "None"
    THEN LET is_pressed == ev.state = "Pressed"
         IN  CASE ev.key \in UpKeys -> <<[ctl EXCEPT !.up_press = is_pressed], TRUE>>
               [] ev.key \in LeftKeys -> <<[ctl EXCEPT !.left_press = is_pressed], TRUE>>
               [] ev.key \in DownKeys -> <<[ctl EXCEPT !.down_press = is_pressed], TRUE>>
               [] ev.key \in RightKeys -> <<[ctl EXCEPT !.left_press = is_pressed], TRUE>>
               [] OTHER -> <<ctl, FALSE>>
    ELSE <<ctl, FALSE>>

\* CameraController::process_events: <<controller, handled>>
process_events(ctl, ev) ==
    IF ev.kind = "KeyboardInput" /\ ev.key # "None"
    THEN LET is_pressed == ev.state = "Pressed"
         IN  CASE ev.key \in UpKeys -> <<[ctl EXCEPT !.up_press = is_pressed], TRUE>>
               [] ev.key \in LeftKeys -> <<[ctl EXCEPT !.left_press = is_pressed], TRUE>>
               [] ev.key \in DownKeys -> <<[ctl EXCEPT !.down_press = is_pressed], TRUE>>
               [] ev.key \in RightKeys -> <<[ctl EXCEPT !.right_press = is_pressed], TRUE>>
               [] OTHER -> <<ctl, FALSE>>
    ELSE <<ctl, FALSE>>

\* variant of the += pair that moves the position and leaves the target
CameraAddPositionOnly(cam, v) == [cam EXCEPT !.position = VAdd(@, v)]

\* camera.position += v; camera.target += v
CameraAdd(cam, v) ==
    [cam EXCEPT !.position = VAdd(@, v), !.target = VAdd(@, v)]

\* camera.position -= v; camera.target -= v
CameraSub(cam, v) ==
    [cam EXCEPT !.position = VSub(@, v), !.target = VSub(@, v)]

\* the four if-blocks of CameraController::update_camera
MoveUp(ctl, forward, cam) ==
    IF ctl.up_press THEN CameraAdd(cam, VScale(forward, ctl.speed)) ELSE cam

MoveDown(ctl, forward, cam) ==
    IF ctl.down_press THEN CameraSub(cam, VScale(forward, ctl.speed)) ELSE cam

\* variant of the left block that is skipped when the camera already moved
\* forward in this tick
MoveLeftUnlessUp(ctl, forward, cam) ==
    IF ctl.left_press /\ ~ctl.up_press
    THEN CameraSub(cam, VScale(VNormalize(VCross(forward, cam.up)), ctl.speed))
    ELSE cam

MoveLeft(ctl, forward, cam) ==
    IF ctl.left_press
    THEN CameraSub(cam, VScale(VNormalize(VCross(forward, cam.up)), ctl.speed))
    ELSE cam

MoveRight(ctl, forward, cam) ==
    IF ctl.right_press
    THEN CameraAdd(cam, VScale(VNormalize(VCross(forward, cam.up)), ctl.speed))
    ELSE cam

UpdateCameraAlong(ctl, forward, cam) ==
    MoveRight(ctl, forward,
        MoveLeft(ctl, forward, MoveDown(ctl, forward, MoveUp(ctl, forward, cam))))

\* CameraController::update_camera
update_camera(ctl, cam) ==
    UpdateCameraAlong(ctl, VNormalize(VSub(cam.target, cam.position)), cam)

----------------------------------------------------------------------------
(* State of the program. *)

VARIABLES
    ctx,                \* State.ctx: size, config, depth_texture
    camera,             \* State.camera
    camera_controller,  \* State.camera_controller
    light,              \* State.light
    obj_model,          \* State.obj_model
    control_flow,       \* winit's ControlFlow, as the closure last left it
    phase,              \* where the event loop is in its iteration
    event,              \* the event the closure was last called with
    calls,              \* the calls that invocation of the closure made, in order
    updates,            \* how often State::update has run
    presented,          \* updates, light position and object world at the last present
    mm,                 \* a ModelMatrix (model_matrix.rs): <<>> or <<[local, world, buffer]>>
    mm_args,            \* the <<local, world>> it was constructed from
    mm_raw,             \* what to_raw last returned for it
    mm_op,              \* the last operation on it; "panic" once one panicked
    mm_ops,             \* how many translate/scale/rotate calls it received
    cc_camera,          \* a Camera driven by a CameraController alone (camera.rs)
    cc_controller,      \* that CameraController
    cc_camera0,         \* the camera as it was created
    cc_event,           \* the event process_events was last given
    cc_handled,         \* what process_events returned for it
    cc_last,            \* per axis, the state of the last event for one of its keys
    cc_ticks            \* how often update_camera has run

frameVars == <<ctx, camera, camera_controller, light, obj_model, control_flow,
               phase, event, calls, updates, presented>>
mmVars == <<mm, mm_args, mm_raw, mm_op, mm_ops>>
ccVars == <<cc_camera, cc_controller, cc_camera0, cc_event, cc_handled, cc_last,
            cc_ticks>>
vars == <<frameVars, mmVars, ccVars>>

Call(op, arg) == [op |-> op, arg |-> arg]

----------------------------------------------------------------------------
(* texture.rs *)

\* Texture::create_depth_texture: the extent is the surface configuration's
create_depth_texture(config, label) ==
    [label |-> label, width |-> config.width, height |-> config.height,
     depth_or_array_layers |-> 1]

----------------------------------------------------------------------------
(* model_matrix.rs, for the object that State::update turns about unit_y:  *)
(* its local and world matrices are rotations about Y, held as angles.     *)

\* RawModelMatrix::new of a rotation about Y: the inverse of the transpose of
\* a rotation's 3x3 block is that block
RawRotY(transform) == [model |-> transform, normal |-> transform]

\* ModelMatrix::identity
ModelMatrixIdentityY ==
    [local |-> [rot_y |-> 0], world |-> [rot_y |-> 0],
     buffer |-> RawRotY(MulRotY([rot_y |-> 0], [rot_y |-> 0]))]

\* ModelMatrix::rotate_world: self.world = self.world * Matrix4::from(rotation)
rotate_world_y(m, rotation) ==
    [m EXCEPT !.world = MulRotY(m.world, Matrix4FromQuatY(rotation))]

\* ModelMatrix::to_raw
to_raw_y(m) == RawRotY(MulRotY(m.world, m.local))

----------------------------------------------------------------------------
(* model_matrix.rs over arbitrary matrices. *)

mat4_to_mat3(mat) ==
    << <<mat[1][1], mat[1][2], mat[1][3]>>,
       <<mat[2][1], mat[2][2], mat[2][3]>>,
       <<mat[3][1], mat[3][2], mat[3][3]>> >>

\* variant of RawModelMatrix::new that falls back to the identity normal
\* matrix when the inversion yields None
RawModelMatrixOfDefault(transform, normal_matrix) ==
    IF normal_matrix[1] = "None"
    THEN <<"Ok", [model |-> transform, normal |-> Identity3]>>
    ELSE <<"Ok", [model |-> transform, normal |-> normal_matrix[2]]>>

\* RawModelMatrix::new: <<"Ok", record>>, or <<"panic">> when unwrap() is
\* called on None
RawModelMatrixOf(transform, normal_matrix) ==
    IF normal_matrix[1] = "None"
    THEN <<"panic">>
    ELSE <<"Ok", [model |-> transform, normal |-> normal_matrix[2]]>>

\* variant of RawModelMatrix::new that inverts without transposing
RawModelMatrixNewNoTranspose(transform) ==
    RawModelMatrixOf(transform, Invert3(mat4_to_mat3(transform)))

RawModelMatrixNew(transform) ==
    RawModelMatrixOf(transform, Invert3(Transpose3(mat4_to_mat3(transform))))

\* the matrix ModelMatrix::new hands to RawModelMatrix::new
ModelMatrixNewTransform(local_transform, world_transform) ==
    Mul4(local_transform, world_transform)

\* the ModelMatrix built around the record written into its buffer:
\* <<"Ok", model matrix>> or <<"panic">>
ModelMatrixOf(local, world, raw_matrix) ==
    IF raw_matrix[1] = "panic"
    THEN <<"panic">>
    ELSE <<"Ok", [local |-> local, world |-> world, buffer |-> raw_matrix[2]]>>

\* ModelMatrix::new
ModelMatrixNew(local_transform, world_transform) ==
    ModelMatrixOf(local_transform, world_transform,
        RawModelMatrixNew(ModelMatrixNewTransform(local_transform, world_transform)))

\* ModelMatrix::identity
ModelMatrixIdentity ==
    ModelMatrixOf(Identity4, Identity4, RawModelMatrixNew(Mul4(Identity4, Identity4)))

\* m.x.w += position[0]; m.y.w += position[1]; m.z.w += position[2]
TranslateMat(m, position) ==
    [m EXCEPT ![1][4] = RAdd(@, position[1]),
              ![2][4] = RAdd(@, position[2]),
              ![3][4] = RAdd(@, position[3])]

\* m.x.x *= scale[0]; m.y.y *= scale[1]; m.z.z *= scale[2]
ScaleMat(m, scale) ==
    [m EXCEPT ![1][1] = RMul(@, scale[1]),
              ![2][2] = RMul(@, scale[2]),
              ![3][3] = RMul(@, scale[3])]

translate_local(m, position) == [m EXCEPT !.local = TranslateMat(@, position)]
translate_world(m, position) == [m EXCEPT !.world = TranslateMat(@, position)]
scale_local(m, scale) == [m EXCEPT !.local = ScaleMat(@, scale)]
scale_world(m, scale) == [m EXCEPT !.world = ScaleMat(@, scale)]
rotate_world(m, rotation) == [m EXCEPT !.world = Mul4(@, Matrix4FromQuat(rotation))]
rotate_local(m, rotation) == [m EXCEPT !.local = Mul4(@, Matrix4FromQuat(rotation))]

\* ModelMatrix::to_raw
to_raw(m) == RawModelMatrixNew(Mul4(m.world, m.local))

----------------------------------------------------------------------------
(* lib.rs: State.  The methods take and return the record                  *)
(* [ctx, camera, camera_controller, light, obj_model, calls].              *)

\* the initial inner size of the window and of the surface configuration
GraphicsContextNew ==
    LET config == [width |-> WIDTH, height |-> HEIGHT]
    IN  [size |-> <<WIDTH, HEIGHT>>, config |-> config,
         depth_texture |-> create_depth_texture(config, "depth texture")]

\* Light::new(device, position, color), with the position (5, 0, 0) and the
\* color (0.4, 0.8, 0.6) of State::new
LightNew ==
    LET uniform == [position |-> [radius |-> R(5), azimuth |-> 0, height |-> R(0)],
                    color |-> <<Rat(4, 10), Rat(8, 10), Rat(6, 10)>>]
    IN  [uniform |-> uniform, buffer |-> uniform]

\* load_model: the object starts with an identity transform
ObjModelNew == [model_matrix |-> ModelMatrixIdentityY]

StateNew ==
    [ctx |-> GraphicsContextNew, camera |-> CameraNew,
     camera_controller |-> CameraControllerNew, light |-> LightNew,
     obj_model |-> ObjModelNew, calls |-> <<>>]

\* variant of the body of the if of State::resize that keeps the old depth
\* texture
ResizedKeepsDepth(st, new_size, config) ==
    [st EXCEPT
       !.ctx = [size |-> new_size, config |-> config,
                depth_texture |-> st.ctx.depth_texture],
       !.camera = update_view_proj(
                      [st.camera EXCEPT !.aspect = Rat(new_size[1], new_size[2])]),
       !.calls = @ \o << Call("surface.configure", config),
                         Call("create_depth_texture", config),
                         Call("update_view_proj", "camera") >>]

\* the body of the if of State::resize
Resized(st, new_size, config) ==
    [st EXCEPT
       !.ctx = [size |-> new_size, config |-> config,
                depth_texture |-> create_depth_texture(config, "depth texture")],
       !.camera = update_view_proj(
                      [st.camera EXCEPT !.aspect = Rat(new_size[1], new_size[2])]),
       !.calls = @ \o << Call("surface.configure", config),
                         Call("create_depth_texture", config),
                         Call("update_view_proj", "camera") >>]

\* variant of the guard of State::resize that lets a size through when only
\* one of its dimensions is positive
ResizeEnteredEitherPositive(st, new_size) ==
    IF new_size[1] > 0 \/ new_size[2] > 0
    THEN Resized(st, new_size,
                 [st.ctx.config EXCEPT !.width = new_size[1], !.height = new_size[2]])
    ELSE st

ResizeEntered(st, new_size) ==
    IF new_size[1] > 0 /\ new_size[2] > 0
    THEN Resized(st, new_size,
                 [st.ctx.config EXCEPT !.width = new_size[1], !.height = new_size[2]])
    ELSE st

\* State::resize
resize(st, new_size) ==
    ResizeEntered([st EXCEPT !.calls = Append(@, Call("resize", new_size))], new_size)

InputResult(st, r) == <<[st EXCEPT !.camera_controller = r[1]], r[2]>>

\* State::input
input(st, ev) == InputResult(st, process_events(st.camera_controller, ev))

\* queue.write_buffer(&self.camera.buffer, 0, cast_slice(&[self.camera.uniform]))
WriteCameraBuffer(cam) == [cam EXCEPT !.buffer = cam.uniform]

\* variant of the camera part of State::update that uploads the uniform
\* without recomputing it
UpdateCameraStaleUniform(st) ==
    [st EXCEPT
       !.camera = WriteCameraBuffer(update_camera(st.camera_controller, st.camera)),
       !.calls = @ \o << Call("update_camera", "camera"),
                         Call("update_view_proj", "camera"),
                         Call("write_buffer", "camera.buffer") >>]

\* State::update, lines 131 to 137: the camera
UpdateCamera(st) ==
    [st EXCEPT
       !.camera = WriteCameraBuffer(
                      update_view_proj(update_camera(st.camera_controller, st.camera))),
       !.calls = @ \o << Call("update_camera", "camera"),
                         Call("update_view_proj", "camera"),
                         Call("write_buffer", "camera.buffer") >>]

LightWithUniform(uniform) == [uniform |-> uniform, buffer |-> uniform]

\* variant of the light part of State::update that turns the light by the
\* object's angle
UpdateLightByObjAngle(st) ==
    [st EXCEPT
       !.light = LightWithUniform(
                     [st.light.uniform EXCEPT
                        !.position = QuatMulVec(from_axis_angle_y(OBJ_DEG), @)]),
       !.calls = @ \o << Call("rotate_light", "light.uniform.position"),
                         Call("write_buffer", "light.buffer") >>]

\* State::update, lines 138 to 148: the light
UpdateLight(st) ==
    [st EXCEPT
       !.light = LightWithUniform(
                     [st.light.uniform EXCEPT
                        !.position = QuatMulVec(from_axis_angle_y(LIGHT_DEG), @)]),
       !.calls = @ \o << Call("rotate_light", "light.uniform.position"),
                         Call("write_buffer", "light.buffer") >>]

\* queue.write_buffer(&model_matrix.buffer, 0, cast_slice(&[model_matrix.to_raw()]))
WriteModelMatrixBuffer(m) == [m EXCEPT !.buffer = to_raw_y(m)]

\* variant of the object part of State::update that sets the world
\* transform to a fixed pose instead of turning it further
UpdateObjectAbsolute(st) ==
    [st EXCEPT
       !.obj_model = [model_matrix |->
                         WriteModelMatrixBuffer(
                             rotate_world_y(ModelMatrixIdentityY,
                                            from_axis_angle_y(OBJ_DEG)))],
       !.calls = @ \o << Call("rotate_world", "obj_model"),
                         Call("write_buffer", "model_matrix.buffer") >>]

\* State::update, lines 150 to 156: the object
UpdateObject(st) ==
    [st EXCEPT
       !.obj_model = [model_matrix |->
                         WriteModelMatrixBuffer(
                             rotate_world_y(st.obj_model.model_matrix,
                                            from_axis_angle_y(OBJ_DEG)))],
       !.calls = @ \o << Call("rotate_world", "obj_model"),
                         Call("write_buffer", "model_matrix.buffer") >>]

\* variant of State::update that handles the light before the camera
updateLightFirst(st) == UpdateObject(UpdateCamera(UpdateLight(st)))

\* State::update
update(st) == UpdateObject(UpdateLight(UpdateCamera(st)))

\* the draws of render(): the pipeline and the vertex buffer at slot 1 are
\* the render pass's state when the draw is recorded; the bind groups are
\* read as the buffers behind them
Draw(pass, model, st) ==
    Call("draw", [model |-> model, pipeline |-> pass.pipeline,
                  vertex_slot_1 |-> pass.vertex_slot_1,
                  camera |-> st.camera.buffer, light |-> st.light.buffer])

SetPipeline(pass, pipeline) == [pass EXCEPT !.pipeline = pipeline]
SetVertexBuffer1(pass, buffer) == [pass EXCEPT !.vertex_slot_1 = buffer]

\* the render pass of State::render, lines 169 to 222, recorded from the
\* pass state the encoder starts with
RenderPass(st, pass0) ==
    << Call("begin_render_pass",
            [clear |-> <<Rat(1, 10), Rat(5, 10), Rat(9, 10), R(1)>>,
             depth_clear |-> R(1), depth |-> st.ctx.depth_texture]),
       Call("set_pipeline", "light_pipeline"),
       Draw(SetPipeline(pass0, "light_pipeline"), "light_model", st),
       Call("set_pipeline", "pipeline.render_pipeline"),
       Call("set_vertex_buffer", 1),
       Draw(SetVertexBuffer1(SetPipeline(SetPipeline(pass0, "light_pipeline"),
                                         "pipeline.render_pipeline"),
                             st.obj_model.model_matrix.buffer),
            "obj_model", st) >>

\* State::render: <<state, result>>; acquired is what get_current_texture
\* returns, "Ok" or a wgpu::SurfaceError
render(st, acquired) ==
    IF acquired # "Ok"
    THEN <<[st EXCEPT !.calls = Append(@, Call("get_current_texture", acquired))],
           acquired>>
    ELSE <<[st EXCEPT !.calls =
               Append(@, Call("get_current_texture", acquired))
               \o RenderPass(st, [pipeline |-> "none", vertex_slot_1 |-> "none"])
               \o <<Call("submit", "encoder"), Call("present", "out")>>],
           "Ok">>

----------------------------------------------------------------------------
(* lib.rs: the closure given to event_loop.run.  Its arms take and return  *)
(* <<state, control_flow>>.                                                *)

Ev(kind, key, state, size) == [kind |-> kind, key |-> key, state |-> state, size |-> size]

\* the keys the keyboard events of the frame loop are drawn from
Keys == {"W", "Up", "S", "A", "Left", "Escape", "Space", "None"}

\* sizes a Resized or ScaleFactorChanged event may carry
Sizes == {<<0, HEIGHT>>, <<WIDTH, 0>>, <<800, 600>>}

WindowEvents ==
    {Ev("KeyboardInput", k, s, <<0, 0>>) : k \in Keys, s \in {"Pressed", "Released"}}
    \cup {Ev("CloseRequested", "-", "-", <<0, 0>>), Ev("CursorLeft", "-", "-", <<0, 0>>)}
    \cup {Ev(kind, "-", "-", size) : kind \in {"Resized", "ScaleFactorChanged"},
                                     size \in Sizes}

\* what surface.get_current_texture() returns: Ok or a wgpu::SurfaceError
AcquireResults == {"Ok", "Lost", "OutOfMemory", "Outdated", "Timeout"}

\* variant of the match on state.render() whose Lost arm reconfigures with
\* the initial window size
RenderMatchLostInitialSize(r, cf) ==
    CASE r[2] = "Ok" -> <<r[1], cf>>
      [] r[2] = "Lost" -> <<resize(r[1], <<WIDTH, HEIGHT>>), cf>>
      [] r[2] = "OutOfMemory" -> <<r[1], "Exit">>
      [] OTHER -> <<[r[1] EXCEPT !.calls = Append(@, Call("eprintln", r[2]))], cf>>

\* variant of the match on state.render() whose OutOfMemory arm only logs
RenderMatchOomLogged(r, cf) ==
    CASE r[2] = "Ok" -> <<r[1], cf>>
      [] r[2] = "Lost" -> <<resize(r[1], r[1].ctx.size), cf>>
      [] OTHER -> <<[r[1] EXCEPT !.calls = Append(@, Call("eprintln", r[2]))], cf>>

\* variant of the match on state.render() that treats Outdated as Lost
RenderMatchOutdatedResizes(r, cf) ==
    CASE r[2] = "Ok" -> <<r[1], cf>>
      [] r[2] \in {"Lost", "Outdated"} -> <<resize(r[1], r[1].ctx.size), cf>>
      [] r[2] = "OutOfMemory" -> <<r[1], "Exit">>
      [] OTHER -> <<[r[1] EXCEPT !.calls = Append(@, Call("eprintln", r[2]))], cf>>

\* the match on state.render() of the arm Event::RedrawRequested
RenderMatch(r, cf) ==
    CASE r[2] = "Ok" -> <<r[1], cf>>
      [] r[2] = "Lost" -> <<resize(r[1], r[1].ctx.size), cf>>
      [] r[2] = "OutOfMemory" -> <<r[1], "Exit">>
      [] OTHER -> <<[r[1] EXCEPT !.calls = Append(@, Call("eprintln", r[2]))], cf>>

\* the arm Event::RedrawRequested
on_redraw_requested(st, cf, acquired) == RenderMatch(render(update(st), acquired), cf)

\* variant of the match of the arm Event::WindowEvent whose first pattern
\* does not name the key
WindowEventMatchAnyKey(r, cf, ev) ==
    IF ~r[2]
    THEN CASE ev.kind = "CloseRequested"
              \/ (ev.kind = "KeyboardInput" /\ ev.state = "Pressed") -> <<r[1], "Exit">>
           [] ev.kind = "Resized" -> <<resize(r[1], ev.size), cf>>
           [] ev.kind = "ScaleFactorChanged" -> <<resize(r[1], ev.size), cf>>
           [] OTHER -> <<r[1], cf>>
    ELSE <<r[1], cf>>

\* the match of the arm Event::WindowEvent, entered if !state.input(event)
WindowEventMatch(r, cf, ev) ==
    IF ~r[2]
    THEN CASE ev.kind = "CloseRequested"
              \/ (ev.kind = "KeyboardInput" /\ ev.state = "Pressed"
                  /\ ev.key = "Escape") -> <<r[1], "Exit">>
           [] ev.kind = "Resized" -> <<resize(r[1], ev.size), cf>>
           [] ev.kind = "ScaleFactorChanged" -> <<resize(r[1], ev.size), cf>>
           [] OTHER -> <<r[1], cf>>
    ELSE <<r[1], cf>>

\* the arm Event::WindowEvent
on_window_event(st, cf, ev) == WindowEventMatch(input(st, ev), cf, ev)

\* the arm Event::MainEventsCleared
on_main_events_cleared(st, cf) ==
    <<[st EXCEPT !.calls = Append(@, Call("request_redraw", "window"))], cf>>

----------------------------------------------------------------------------
(* The event loop calling the closure. *)

State ==
    [ctx |-> ctx, camera |-> camera, camera_controller |-> camera_controller,
     light |-> light, obj_model |-> obj_model, calls |-> <<>>]

Commit(r) ==
    /\ ctx' = r[1].ctx
    /\ camera' = r[1].camera
    /\ camera_controller' = r[1].camera_controller
    /\ light' = r[1].light
    /\ obj_model' = r[1].obj_model
    /\ calls' = r[1].calls
    /\ control_flow' = r[2]

Snapshot(n, st) ==
    [updates |-> n, light |-> st.light.uniform.position,
     world |-> st.obj_model.model_matrix.world]

\* ControlFlow::Exit is sticky: the loop sends LoopDestroyed and stops
Running == control_flow # "Exit" /\ phase # "destroyed"

InitFrame ==
    /\ ctx = StateNew.ctx
    /\ camera = StateNew.camera
    /\ camera_controller = StateNew.camera_controller
    /\ light = StateNew.light
    /\ obj_model = StateNew.obj_model
    /\ control_flow = "Poll"
    /\ phase = "events"
    /\ event = Ev("NewEvents", "-", "-", <<0, 0>>)
    /\ calls = <<>>
    /\ updates = 0
    /\ presented = Snapshot(0, StateNew)

\* no ModelMatrix constructed yet: <<>> is an absent value
InitMM ==
    /\ mm = <<>>
    /\ mm_args = <<>>
    /\ mm_raw = <<>>
    /\ mm_op = "none"
    /\ mm_ops = 0

\* a camera and a fresh controller, no event processed yet
InitCC(cam) ==
    /\ cc_camera = cam
    /\ cc_camera0 = cam
    /\ cc_controller = CameraControllerNew
    /\ cc_event = Ev("NewEvents", "-", "-", <<0, 0>>)
    /\ cc_handled = FALSE
    /\ cc_last = [up |-> "none", down |-> "none", left |-> "none", right |-> "none"]
    /\ cc_ticks = 0

Init == InitFrame /\ InitMM /\ InitCC(CameraNew)

WindowEvent ==
    /\ Running
    /\ phase = "events"
    /\ \E ev \in WindowEvents :
          /\ event' = ev
          /\ \E r \in {on_window_event(State, control_flow, ev)} : Commit(r)
    /\ UNCHANGED <<phase, updates, presented, mmVars, ccVars>>

\* an event the closure ignores: a device event, an event of another window
OtherEvent ==
    /\ Running
    /\ phase = "events"
    /\ event' = Ev("DeviceEvent", "-", "-", <<0, 0>>)
    /\ calls' = <<>>
    /\ UNCHANGED <<ctx, camera, camera_controller, light, obj_model, control_flow,
                   phase, updates, presented, mmVars, ccVars>>

MainEventsCleared ==
    /\ Running
    /\ phase = "events"
    /\ event' = Ev("MainEventsCleared", "-", "-", <<0, 0>>)
    /\ \E r \in {on_main_events_cleared(State, control_flow)} : Commit(r)
    /\ phase' = "redraw"
    /\ UNCHANGED <<updates, presented, mmVars, ccVars>>

RedrawRequested ==
    /\ Running
    /\ phase = "redraw"
    /\ updates < MaxTicks
    /\ event' = Ev("RedrawRequested", "-", "-", <<0, 0>>)
    /\ \E acquired \in AcquireResults :
          \E r \in {on_redraw_requested(State, control_flow, acquired)} :
             /\ Commit(r)
             /\ presented' = IF acquired = "Ok"
                             THEN Snapshot(updates + 1, r[1]) ELSE presented
    /\ updates' = updates + 1
    /\ phase' = "events"
    /\ UNCHANGED <<mmVars, ccVars>>

LoopDestroyed ==
    /\ control_flow = "Exit"
    /\ phase # "destroyed"
    /\ event' = Ev("LoopDestroyed", "-", "-", <<0, 0>>)
    /\ calls' = <<>>
    /\ phase' = "destroyed"
    /\ UNCHANGED <<ctx, camera, camera_controller, light, obj_model, control_flow,
                   updates, presented, mmVars, ccVars>>

Next ==
    \/ WindowEvent
    \/ OtherEvent
    \/ MainEventsCleared
    \/ RedrawRequested
    \/ LoopDestroyed

Spec == Init /\ [][Next]_vars

----------------------------------------------------------------------------
(* A ModelMatrix constructed from, and driven with, inputs of small sets. *)

\* a translation by (1, 2, 3), a scale by (2, 1, 1), the rotation by 120
\* degrees about (1, 1, 1) and a matrix whose 3x3 block is singular
Matrices ==
    { Identity4,
      Mat4(R(1), R(0), R(0), R(0),  R(0), R(1), R(0), R(0),
           R(0), R(0), R(1), R(0),  R(1), R(2), R(3), R(1)),
      Mat4(R(2), R(0), R(0), R(0),  R(0), R(1), R(0), R(0),
           R(0), R(0), R(1), R(0),  R(0), R(0), R(0), R(1)),
      Matrix4FromQuat([s |-> Rat(1, 2), v |-> <<Rat(1, 2), Rat(1, 2), Rat(1, 2)>>]),
      Mat4(R(1), R(0), R(0), R(0),  R(0), R(0), R(0), R(0),
           R(0), R(0), R(1), R(0),  R(0), R(0), R(0), R(1)) }

Positions == { V3(1, 2, 3) }
Scales == { V3(2, 1, 3), V3(1, 0, 1) }
\* the unit quaternions of the rotations by 120 degrees about (1, 1, 1) and
\* by 180 degrees about X
Quaternions ==
    { [s |-> Rat(1, 2), v |-> <<Rat(1, 2), Rat(1, 2), Rat(1, 2)>>],
      [s |-> R(0), v |-> <<R(1), R(0), R(0)>>] }

Constructed(r, args) ==
    /\ mm_args' = args
    /\ mm_ops' = 0
    /\ mm_raw' = <<>>
    /\ IF r[1] = "panic"
       THEN mm' = <<>> /\ mm_op' = "panic"
       ELSE mm' = <<r[2]>> /\ mm_op' = "new"
    /\ UNCHANGED <<frameVars, ccVars>>

MMNew ==
    /\ mm_op = "none"
    /\ \E l \in Matrices, w \in Matrices :
          \E r \in {ModelMatrixNew(l, w)} : Constructed(r, <<l, w>>)

MMIdentity ==
    /\ mm_op = "none"
    /\ \E r \in {ModelMatrixIdentity} : Constructed(r, <<Identity4, Identity4>>)

Alive == mm # <<>> /\ mm_op # "panic"

Applied(op, m) ==
    /\ mm' = <<m>>
    /\ mm_op' = op
    /\ mm_ops' = mm_ops + 1
    /\ UNCHANGED <<mm_args, mm_raw, frameVars, ccVars>>

MMTranslate ==
    /\ Alive /\ mm_ops < MaxOps
    /\ \E p \in Positions :
          \/ Applied("translate_local", translate_local(mm[1], p))
          \/ Applied("translate_world", translate_world(mm[1], p))

MMScale ==
    /\ Alive /\ mm_ops < MaxOps
    /\ \E s \in Scales :
          \/ Applied("scale_local", scale_local(mm[1], s))
          \/ Applied("scale_world", scale_world(mm[1], s))

MMRotate ==
    /\ Alive /\ mm_ops < MaxOps
    /\ \E q \in Quaternions :
          \/ Applied("rotate_local", rotate_local(mm[1], q))
          \/ Applied("rotate_world", rotate_world(mm[1], q))

MMToRaw ==
    /\ Alive
    /\ \E r \in {to_raw(mm[1])} :
          /\ mm_raw' = r
          /\ mm_op' = IF r[1] = "panic" THEN "panic" ELSE "to_raw"
    /\ UNCHANGED <<mm, mm_args, mm_ops, frameVars, ccVars>>

NextMM ==
    \/ MMNew
    \/ MMIdentity
    \/ MMTranslate
    \/ MMScale
    \/ MMRotate
    \/ MMToRaw

SpecMM == Init /\ [][NextMM]_vars

----------------------------------------------------------------------------
(* A Camera driven by a CameraController alone: key events go to           *)
(* process_events, ticks to update_camera.                                 *)

\* every key process_events names, one it does not, and virtual_keycode: None
AllKeys == {"W", "Up", "A", "Left", "S", "Down", "D", "Right", "Escape", "None"}

ControllerEvents ==
    {Ev("KeyboardInput", k, s, <<0, 0>>) : k \in AllKeys, s \in {"Pressed", "Released"}}
    \cup {Ev("CursorLeft", "-", "-", <<0, 0>>)}

\* the axis a key drives, "none" for the other keys
AxisOf(key) ==
    CASE key \in {"W", "Up"} -> "up"
      [] key \in {"S", "Down"} -> "down"
      [] key \in {"A", "Left"} -> "left"
      [] key \in {"D", "Right"} -> "right"
      [] OTHER -> "none"

\* per axis, the state carried by the last keyboard event for one of its keys
Noted(last, ev) ==
    IF ev.kind = "KeyboardInput" /\ AxisOf(ev.key) # "none"
    THEN [last EXCEPT ![AxisOf(ev.key)] = ev.state]
    ELSE last

CCProcessEvents ==
    /\ \E ev \in ControllerEvents :
          /\ cc_event' = ev
          /\ cc_last' = Noted(cc_last, ev)
          /\ \E r \in {process_events(cc_controller, ev)} :
                /\ cc_controller' = r[1]
                /\ cc_handled' = r[2]
    /\ UNCHANGED <<cc_camera, cc_camera0, cc_ticks, frameVars, mmVars>>

CCUpdateCamera ==
    /\ cc_ticks < MaxCamTicks
    /\ cc_camera' = update_camera(cc_controller, cc_camera)
    /\ cc_ticks' = cc_ticks + 1
    /\ UNCHANGED <<cc_controller, cc_camera0, cc_event, cc_handled, cc_last,
                   frameVars, mmVars>>

NextCam ==
    \/ CCProcessEvents
    \/ CCUpdateCamera

SpecCam == Init /\ [][NextCam]_vars

----------------------------------------------------------------------------
(* Properties of the frame loop, checked under Spec.  calls is the log of  *)
(* the handler that ran last and event is the event it was given.          *)

Has(log, op) == \E i \in DOMAIN log : log[i].op = op

\* what get_current_texture returned in the logged handler, "none" without it
Acquire(log) ==
    IF Has(log, "get_current_texture")
    THEN log[CHOOSE i \in DOMAIN log : log[i].op = "get_current_texture"].arg
    ELSE "none"

Draws(log) == SelectSeq(log, LAMBDA c : c.op = "draw")

RenderOps == {"begin_render_pass", "set_pipeline", "set_vertex_buffer", "draw",
              "submit", "present"}

NoRender(log) == \A i \in DOMAIN log : log[i].op \notin RenderOps

ZeroSized(ev) ==
    /\ ev.kind \in {"Resized", "ScaleFactorChanged"}
    /\ (ev.size[1] = 0 \/ ev.size[2] = 0)

\* C1: a resize to a size whose width or height is 0 changes nothing: the
\* stored size, the surface configuration, the depth texture and the camera
\* (aspect, uniform, buffer and bind group) stay as they were, and the
\* surface is not reconfigured.
C1_ZeroResizeIsNoOp ==
    [][ZeroSized(event') =>
          /\ ctx' = ctx
          /\ camera' = camera
          /\ calls' = <<Call("resize", event'.size)>>]_vars

\* a zero-sized resize arrives after a resize to 800x600 was accepted
C1_Witness ==
    /\ ZeroSized(event)
    /\ calls = <<Call("resize", event.size)>>
    /\ ctx.size = <<800, 600>>

\* C2: at every draw that binds the camera bind group, the buffer behind it
\* holds the view-projection matrix of the camera's current position,
\* target, up vector and aspect ratio.
C2_DrawSeesCurrentViewProj ==
    \A i \in DOMAIN calls :
       calls[i].op = "draw" =>
          calls[i].arg.camera = build_view_projection_matrix(camera)

\* a frame is drawn after the camera has moved and the window was resized
C2_Witness ==
    /\ Has(calls, "draw")
    /\ camera.position # CameraNew.position
    /\ camera.aspect = Rat(800, 600)

\* C3: when the frame's acquisition fails with Lost, the handler calls
\* resize with the size the context holds, draws nothing, leaves the control
\* flow alone, and the loop goes on to the next tick.
C3_LostReconfigures ==
    [][(event'.kind = "RedrawRequested" /\ Acquire(calls') = "Lost") =>
          /\ Has(calls', "resize")
          /\ \A i \in DOMAIN calls' :
                calls'[i].op = "resize" => calls'[i].arg = ctx.size
          /\ Has(calls', "surface.configure")
          /\ ctx'.size = ctx.size
          /\ NoRender(calls')
          /\ control_flow' = "Poll"
          /\ phase' = "events"]_vars

\* the surface is lost after the window was resized to 800x600
C3_Witness ==
    /\ event.kind = "RedrawRequested"
    /\ Acquire(calls) = "Lost"
    /\ ctx.size = <<800, 600>>

\* C4: when the frame's acquisition fails with OutOfMemory the control flow
\* becomes Exit, and from that frame on nothing is drawn, submitted or
\* presented: a state whose control flow is Exit has a log without them.
C4_OutOfMemoryExits ==
    /\ Acquire(calls) = "OutOfMemory" => control_flow = "Exit"
    /\ control_flow = "Exit" => NoRender(calls)
    /\ phase = "destroyed" => control_flow = "Exit" /\ calls = <<>>

\* the second frame runs out of memory
C4_Witness ==
    /\ event.kind = "RedrawRequested"
    /\ Acquire(calls) = "OutOfMemory"
    /\ updates = 2

\* C5: when the frame's acquisition fails with Outdated or Timeout, no
\* render pass is begun, nothing is drawn, submitted or presented, no
\* resize happens, exit is not requested, and the loop is back at the
\* events of the next tick.
C5_OtherErrorsSkipFrame ==
    Acquire(calls) \in {"Outdated", "Timeout"} =>
       /\ NoRender(calls)
       /\ ~Has(calls, "resize")
       /\ ~Has(calls, "surface.configure")
       /\ calls[Len(calls)] = Call("eprintln", Acquire(calls))
       /\ control_flow = "Poll"
       /\ phase = "events"

\* the second frame times out and no frame was presented before it
C5_Witness ==
    /\ Acquire(calls) = "Timeout"
    /\ updates = 2
    /\ presented.updates = 0

\* the size the logged handler called resize with, <<0, 0>> without a call
ResizeArg(log) ==
    IF Has(log, "resize")
    THEN log[CHOOSE i \in DOMAIN log : log[i].op = "resize"].arg
    ELSE <<0, 0>>

\* the size-dependent state of c and cam is that of the size
SizedFor(c, cam, size) ==
    /\ c.size = size
    /\ c.config.width = size[1] /\ c.config.height = size[2]
    /\ c.depth_texture.width = size[1] /\ c.depth_texture.height = size[2]
    /\ cam.aspect = Rat(size[1], size[2])
    /\ cam.uniform = ViewProjection(cam.position, cam.target, cam.up,
                                    Rat(size[1], size[2]))
    /\ cam.buffer = cam.uniform

\* C16: after a resize to (w, h) with w > 0 and h > 0 the stored size and
\* the surface configuration are (w, h), the surface was reconfigured, the
\* depth texture was recreated with extent (w, h), and the camera's aspect
\* is w / h with its uniform recomputed for it; a resize event for the size
\* already held leaves all of these values as they are.
C16_ResizeConsistent ==
    [][(ResizeArg(calls')[1] > 0 /\ ResizeArg(calls')[2] > 0) =>
          /\ SizedFor(ctx', camera', ResizeArg(calls'))
          /\ Has(calls', "surface.configure")
          /\ Has(calls', "create_depth_texture")
          /\ (event'.kind \in {"Resized", "ScaleFactorChanged"}
              /\ ctx.size = ResizeArg(calls')) =>
                ctx' = ctx /\ camera' = camera]_vars

\* a resize to 800x600 after the camera has moved
C16_Witness ==
    /\ event.kind = "Resized"
    /\ ResizeArg(calls) = <<800, 600>>
    /\ ctx.size = <<800, 600>>
    /\ camera.position # CameraNew.position

\* update() calls made since the frame presented last (since construction
\* when none was)
Pending == updates - presented.updates

\* C6 as stated: update() calls that follow one another without a presented
\* frame between them leave the light position and the object's world
\* transform where the first of them put them.
C6_UpdateIdempotent ==
    Pending >= 1 =>
       /\ light.uniform.position =
             QuatMulVec(from_axis_angle_y(LIGHT_DEG), presented.light)
       /\ obj_model.model_matrix.world =
             MulRotY(presented.world, Matrix4FromQuatY(from_axis_angle_y(OBJ_DEG)))

\* C6, amended: every update() call turns the light by a further degree and
\* the object's world transform by a further 0.2 degrees about Y, whether or
\* not a frame was presented since the call before: n calls since the last
\* presented frame have turned them n times.
C6_UpdateAccumulates ==
    /\ light.uniform.position =
          QuatMulVec(from_axis_angle_y(Pending * LIGHT_DEG), presented.light)
    /\ obj_model.model_matrix.world =
          MulRotY(presented.world,
                  Matrix4FromQuatY(from_axis_angle_y(Pending * OBJ_DEG)))
    /\ obj_model.model_matrix.buffer = to_raw_y(obj_model.model_matrix)

\* two frames in a row failed to acquire, each after its update()
C6_Witness ==
    /\ Pending = 2
    /\ Acquire(calls) \in {"Lost", "Outdated", "Timeout"}

\* C8 as stated: the control flow becomes Exit only on a close request or on
\* an OutOfMemory acquisition; no keyboard event sets it.
C8_ExitOnlyCloseOrOom ==
    (control_flow = "Exit" /\ phase # "destroyed") =>
       \/ event.kind = "CloseRequested"
       \/ (event.kind = "RedrawRequested" /\ Acquire(calls) = "OutOfMemory")

\* C8, amended: the control flow becomes Exit only on a close request, on a
\* press of the Escape key, or on an OutOfMemory acquisition; no other event,
\* in particular no other keyboard event, sets it.
C8_ExitOnlyCloseEscapeOrOom ==
    /\ (control_flow = "Exit" /\ phase # "destroyed") =>
          \/ event.kind = "CloseRequested"
          \/ (event.kind = "KeyboardInput" /\ event.key = "Escape"
              /\ event.state = "Pressed")
          \/ (event.kind = "RedrawRequested" /\ Acquire(calls) = "OutOfMemory")
    /\ (event.kind = "KeyboardInput"
        /\ ~(event.key = "Escape" /\ event.state = "Pressed")) =>
          control_flow = "Poll"

\* Escape is pressed after a frame was presented
C8_Witness ==
    /\ control_flow = "Exit"
    /\ event.kind = "KeyboardInput"
    /\ event.key = "Escape"
    /\ presented.updates = 1

\* C9: after n update() calls the light position is the initial position
\* turned by n degrees about Y, whatever else happened; nothing but update()
\* changes it.
C9_LightAngle ==
    /\ light.uniform.position =
          QuatMulVec(from_axis_angle_y(updates * LIGHT_DEG),
                     LightNew.uniform.position)
    /\ light.buffer = light.uniform

\* two update() calls, with a resize and a camera move among the events
C9_Witness ==
    /\ updates = 2
    /\ ctx.size = <<800, 600>>
    /\ camera.position # CameraNew.position

\* what the order of a frame is stated over: the operation, with the buffer
\* written, the pipeline set, or the model drawn and the pipeline it is
\* drawn with
Step(c) ==
    CASE c.op \in {"write_buffer", "set_pipeline"} -> <<c.op, c.arg>>
      [] c.op = "draw" -> <<c.op, c.arg.model, c.arg.pipeline>>
      [] OTHER -> <<c.op>>

Steps(log) == [i \in DOMAIN log |-> Step(log[i])]

FrameOrder ==
    << <<"update_camera">>, <<"update_view_proj">>,
       <<"write_buffer", "camera.buffer">>,
       <<"rotate_light">>, <<"write_buffer", "light.buffer">>,
       <<"rotate_world">>, <<"write_buffer", "model_matrix.buffer">>,
       <<"get_current_texture">>, <<"begin_render_pass">>,
       <<"set_pipeline", "light_pipeline">>,
       <<"draw", "light_model", "light_pipeline">>,
       <<"set_pipeline", "pipeline.render_pipeline">>,
       <<"set_vertex_buffer">>,
       <<"draw", "obj_model", "pipeline.render_pipeline">>,
       <<"submit">>, <<"present">> >>

\* C10: a frame that is presented ran, in this order: the camera move and
\* the camera upload, the light rotation and its upload, the object's world
\* rotation and the transform upload, the acquisition, one render pass, the
\* draw of the light model with the light pipeline, the draw of the object
\* with the object pipeline and the transform buffer at vertex slot 1, the
\* submission, the presentation.
C10_FrameOrder ==
    Has(calls, "present") =>
       /\ Steps(calls) = FrameOrder
       /\ Draws(calls)[1].arg.vertex_slot_1 = "none"
       /\ Draws(calls)[2].arg.vertex_slot_1 = to_raw_y(obj_model.model_matrix)
       /\ obj_model.model_matrix.buffer = to_raw_y(obj_model.model_matrix)

\* the second frame is presented
C10_Witness ==
    /\ Has(calls, "present")
    /\ presented.updates = 2

----------------------------------------------------------------------------
(* Properties of ModelMatrix, checked under SpecMM.  mm_args is the pair   *)
(* <<local, world>> the ModelMatrix was constructed from.                  *)

\* C7: every record ModelMatrix produces for the GPU, in the buffer written
\* by its constructors and in the value to_raw returns, has
\* model = world * local.
C7_ModelIsWorldTimesLocal ==
    /\ mm_op = "new" => mm[1].buffer.model = Mul4(mm_args[2], mm_args[1])
    /\ mm_op = "to_raw" => mm_raw[2].model = Mul4(mm[1].world, mm[1].local)

\* a ModelMatrix constructed from a local and a world transform that do not
\* commute
C7_Witness ==
    /\ mm_op = "new"
    /\ Mul4(mm_args[1], mm_args[2]) # Mul4(mm_args[2], mm_args[1])

\* Matrix3 * Matrix3, column-major like Mul4
Entry3(a, b, c, r) ==
    RAdd(RAdd(RMul(a[1][r], b[c][1]), RMul(a[2][r], b[c][2])), RMul(a[3][r], b[c][3]))

Column3(a, b, c) == <<Entry3(a, b, c, 1), Entry3(a, b, c, 2), Entry3(a, b, c, 3)>>

Mul3(a, b) == <<Column3(a, b, 1), Column3(a, b, 2), Column3(a, b, 3)>>

\* n is the inverse of the transpose of the upper-left 3x3 block of model
IsInverseTranspose(n, model) ==
    /\ Mul3(Transpose3(mat4_to_mat3(model)), n) = Identity3
    /\ Mul3(n, Transpose3(mat4_to_mat3(model))) = Identity3

\* to_raw was the last call on the ModelMatrix, whether it returned or not
ToRawCalled == mm # <<>> /\ mm_op \in {"to_raw", "panic"}

\* C12: when the upper-left 3x3 block of the composed matrix world * local
\* is invertible, to_raw returns a record, and the record's normal field is
\* the inverse of the transpose of the upper-left 3x3 block of its model
\* field.
C12_NormalIsInverseTranspose ==
    (ToRawCalled /\ Det3(mat4_to_mat3(Mul4(mm[1].world, mm[1].local))) # R(0)) =>
       /\ mm_raw[1] = "Ok"
       /\ IsInverseTranspose(mm_raw[2].normal, mm_raw[2].model)

\* to_raw of a transform that was scaled and rotated: its normal matrix is
\* neither the 3x3 block of the model matrix nor its transpose
C12_Witness ==
    /\ mm_op = "to_raw"
    /\ mm_ops = 2
    /\ mm_raw[2].normal # mat4_to_mat3(mm_raw[2].model)
    /\ mm_raw[2].normal # Transpose3(mat4_to_mat3(mm_raw[2].model))

\* the determinant of the upper-left 3x3 block of world * local
ComposedDet(m) == Det3(mat4_to_mat3(Mul4(m.world, m.local)))

\* C13: scale inputs are validated: a scale_local or scale_world call, with
\* any factors, a zero among them included, on a transform whose composed
\* 3x3 block is invertible leaves it invertible, and to_raw of a transform
\* that only such calls have touched does not fail.
C13_ScaleKeepsInvertible ==
    [][(mm # <<>> /\ ComposedDet(mm[1]) # R(0)) =>
          /\ mm_op' \in {"scale_local", "scale_world"} => ComposedDet(mm'[1]) # R(0)
          /\ mm_op' # "panic"]_vars

\* an identity transform received one scale call and to_raw then panicked
C13_Witness ==
    /\ mm # <<>>
    /\ mm_args = <<Identity4, Identity4>>
    /\ mm_ops = 1
    /\ mm[1].world \in {ScaleMat(Identity4, s) : s \in Scales}
    /\ mm_op = "panic"

\* C14: building a record from a matrix whose upper-left 3x3 block is
\* singular panics and yields nothing: ModelMatrix::new constructs no
\* ModelMatrix, to_raw returns no record, and no normal matrix is made up.
C14_SingularPanics ==
    /\ (mm_args # <<>>
        /\ Det3(mat4_to_mat3(ModelMatrixNewTransform(mm_args[1], mm_args[2]))) = R(0)) =>
          mm = <<>> /\ mm_raw = <<>> /\ mm_op = "panic"
    /\ (ToRawCalled /\ ComposedDet(mm[1]) = R(0)) =>
          mm_raw = <<"panic">> /\ mm_op = "panic"

\* ModelMatrix::new was called with a world transform whose 3x3 block is
\* singular
C14_Witness ==
    /\ mm_op = "panic"
    /\ mm = <<>>
    /\ mm_args # <<>>
    /\ Det3(mat4_to_mat3(mm_args[1])) # R(0)
    /\ Det3(mat4_to_mat3(mm_args[2])) = R(0)

\* the matrix of the translation by d: d in the fourth column
TranslationOf(d) ==
    Mat4(R(1), R(0), R(0), R(0),  R(0), R(1), R(0), R(0),
         R(0), R(0), R(1), R(0),  d[1], d[2], d[3], R(1))

IsIdentityTransform(m) == m.local = Identity4 /\ m.world = Identity4

\* C15: translate_world(d) or translate_local(d) on an identity transform
\* yields the translation by d: the model matrix to_raw returns carries d in
\* its fourth column, so it maps (0, 0, 0, 1) to (d.x, d.y, d.z, 1), and its
\* bottom row is (0, 0, 0, 1).
C15_TranslateIsTranslation ==
    [][(mm # <<>> /\ IsIdentityTransform(mm[1])
        /\ mm_op' \in {"translate_local", "translate_world"}) =>
          \E d \in Positions :
             to_raw(mm'[1]) = RawModelMatrixNew(TranslationOf(d))]_vars

\* to_raw was called on a transform that is the identity but for what one
\* translate call wrote into its bottom row
C15_Witness ==
    /\ mm_op = "to_raw"
    /\ mm_ops = 1
    /\ mm_args = <<Identity4, Identity4>>
    /\ \E d \in Positions :
          <<mm_raw[2].model[1][4], mm_raw[2].model[2][4], mm_raw[2].model[3][4]>> = d
    /\ mm_raw[2].model[4] = <<R(0), R(0), R(0), R(1)>>

----------------------------------------------------------------------------
(* Properties of the camera controller, checked under SpecCam. *)

\* the controller with only the given two axes as stated
OnlyAxes(ctl, up, left) ==
    [ctl EXCEPT !.up_press = up, !.left_press = left,
                !.down_press = FALSE, !.right_press = FALSE]

\* how far one update_camera call moves the position, and the target
Displacement(ctl, cam) == VSub(update_camera(ctl, cam).position, cam.position)
TargetDisplacement(ctl, cam) == VSub(update_camera(ctl, cam).target, cam.target)

UpAndLeftOnly(ctl) ==
    ctl.up_press /\ ctl.left_press /\ ~ctl.down_press /\ ~ctl.right_press

\* C11: a tick with forward and left both active moves the position and the
\* target by the sum of what a forward-only tick and a left-only tick move
\* them from the same pose; the sum is not renormalized, its squared length
\* is twice the squared speed.
C11_DiagonalIsVectorSum ==
    [][(cc_ticks' = cc_ticks + 1 /\ UpAndLeftOnly(cc_controller)) =>
          /\ VSub(cc_camera'.position, cc_camera.position) =
                VAdd(Displacement(OnlyAxes(cc_controller, TRUE, FALSE), cc_camera),
                     Displacement(OnlyAxes(cc_controller, FALSE, TRUE), cc_camera))
          /\ VSub(cc_camera'.target, cc_camera.target) =
                VAdd(TargetDisplacement(OnlyAxes(cc_controller, TRUE, FALSE), cc_camera),
                     TargetDisplacement(OnlyAxes(cc_controller, FALSE, TRUE), cc_camera))
          /\ VDot(VSub(cc_camera'.position, cc_camera.position),
                  VSub(cc_camera'.position, cc_camera.position)) =
                RMul(R(2), RMul(cc_controller.speed, cc_controller.speed))]_vars

\* one tick with forward and left active has moved the camera by a vector of
\* squared length twice the squared speed
C11_Witness ==
    /\ cc_ticks = 1
    /\ UpAndLeftOnly(cc_controller)
    /\ VDot(VSub(cc_camera.position, cc_camera0.position),
            VSub(cc_camera.position, cc_camera0.position)) =
          RMul(R(2), RMul(cc_controller.speed, cc_controller.speed))

ViewDirection(cam) == VSub(cam.target, cam.position)

\* C17: every update_camera call moves position and target by the same
\* vector, so target - position is what it was when the camera was created,
\* after any key events and ticks; the controller changes neither up nor
\* aspect, and a process_events call changes nothing of the camera.
C17_ViewDirectionKept ==
    [][/\ VSub(cc_camera'.position, cc_camera.position) =
             VSub(cc_camera'.target, cc_camera.target)
       /\ ViewDirection(cc_camera') = ViewDirection(cc_camera0)
       /\ cc_camera'.up = cc_camera0.up
       /\ cc_camera'.aspect = cc_camera0.aspect
       /\ cc_camera0' = cc_camera0
       /\ cc_ticks' = cc_ticks => cc_camera' = cc_camera]_vars

\* two ticks have moved the camera forward or back and sideways
C17_Witness ==
    /\ cc_ticks = 2
    /\ cc_camera.position[1] # cc_camera0.position[1]
    /\ cc_camera.position[3] # cc_camera0.position[3]
    /\ cc_camera.target # cc_camera0.target

\* each flag is the pressed state of the last event for its axis, false
\* without one
FlagsFollow(ctl, last) ==
    /\ ctl.up_press = (last.up = "Pressed")
    /\ ctl.down_press = (last.down = "Pressed")
    /\ ctl.left_press = (last.left = "Pressed")
    /\ ctl.right_press = (last.right = "Pressed")

\* the event is a keyboard event for one of the eight movement keys
Mapped(ev) == ev.kind = "KeyboardInput" /\ AxisOf(ev.key) # "none"

\* C18: after any keyboard events each of the flags up, down, left, right is
\* the pressed/released state of the last event for one of its two keys
\* (W/Up, S/Down, A/Left, D/Right), false if there was none; an event for
\* another key, or one that is no keyboard event, leaves the controller as
\* it is and is reported as not handled.
C18_FlagsFollowKeys ==
    [][/\ FlagsFollow(cc_controller', cc_last')
       /\ cc_ticks' # cc_ticks => cc_controller' = cc_controller
       /\ cc_ticks' = cc_ticks =>
             /\ cc_handled' = Mapped(cc_event')
             /\ ~Mapped(cc_event') => cc_controller' = cc_controller]_vars

\* Escape arrives, unhandled, when up was released, down and right are
\* pressed and no key for left was seen
C18_Witness ==
    /\ cc_last = [up |-> "Released", down |-> "Pressed", left |-> "none",
                  right |-> "Pressed"]
    /\ cc_controller.down_press /\ cc_controller.right_press
    /\ ~cc_controller.up_press /\ ~cc_controller.left_press
    /\ cc_event.key = "Escape"
    /\ ~cc_handled

====
